---- MODULE Spec2Model ----
(***************************************************************************)
(* Button component of VirtualOS (Utilities/button/button.c): the debounce *)
(* filter, the click-classification state machine, button_scan and         *)
(* button_ctor.  One step of the model is one call of button_scan.         *)
(*                                                                         *)
(* A button_t is a record                                                  *)
(*   [cfg     |-> [f_io_read, active_lv, up_max_cnt, long_min_cnt],        *)
(*    f_ev_cb |-> "NULL" or "f_ev_cb",                                     *)
(*    state   |-> [state, counter, click_cnt, jit |-> [previous, asserted]]]*)
(* and state.state holds the name of the handler the function pointer      *)
(* refers to ("NULL" for the null pointer).  counter and click_cnt stay    *)
(* far below the range of any C integer type within the bounds explored.   *)
(***************************************************************************)
EXTENDS Integers, Sequences, FiniteSets, TLC

\* Bounds of the exploration.
MaxTicks == 15
MaxUpCnt == 3
MaxLongCnt == 3
MaxAnyTicks == 1
MaxCounter == 3
MaxClicks == 4
MaxMultiTicks == 19

VARIABLES
    p_btn,  \* the pointer handed to button_scan: "NULL" or "btn"
    btn,    \* the button_t object
    ret,    \* value returned by the last button_scan call
    cbs,    \* callback invocations made by the last call: <<[ev_type, clicks]>>
    reads,  \* number of f_io_read calls made by the last call
    hist,   \* one record per button_scan call since the button last rested
    raws,   \* the last four samples: [raw, lv, io_ev], the level f_io_read
            \* returned, the debounced level and the state-machine input
    limit   \* longest log explored

vars == <<p_btn, btn, ret, cbs, reads, hist, raws, limit>>

\* ------------------------------------------------------------------------
\* Enumerations

BTN_IO_EVENT_UP == "BTN_IO_EVENT_UP"
BTN_IO_EVENT_DOWN == "BTN_IO_EVENT_DOWN"
BTN_IO_EVENT_E == {BTN_IO_EVENT_UP, BTN_IO_EVENT_DOWN}

BTN_EVENT_NONE == "BTN_EVENT_NONE"
BTN_EVENT_POPUP == "BTN_EVENT_POPUP"
BTN_EVENT_SINGLE_CLICK == "BTN_EVENT_SINGLE_CLICK"
BTN_EVENT_DOUBLE_CLICK == "BTN_EVENT_DOUBLE_CLICK"
BTN_EVENT_MORE_CLICK == "BTN_EVENT_MORE_CLICK"
BTN_EVENT_LONG_CLICK == "BTN_EVENT_LONG_CLICK"

BUTTON_LEVEL_HIGH == 1

Levels == {0, 1}

\* ------------------------------------------------------------------------
\* Click classification

dispatch_click_type_no_double(click_cnt) ==
    IF click_cnt < 2
    THEN <<BTN_EVENT_NONE, BTN_EVENT_SINGLE_CLICK>>[click_cnt + 1]
    ELSE BTN_EVENT_MORE_CLICK

dispatch_click_type(click_cnt) ==
    IF click_cnt < 3
    THEN <<BTN_EVENT_NONE, BTN_EVENT_SINGLE_CLICK, BTN_EVENT_DOUBLE_CLICK>>[click_cnt + 1]
    ELSE BTN_EVENT_MORE_CLICK

\* ------------------------------------------------------------------------
\* State handlers.  Each takes the button and the io event and yields the
\* button after the handler and the event the handler returns.

on_idle_handler_stay(b, io_ev) ==
    IF io_ev = BTN_IO_EVENT_UP
    THEN [btn |-> b, ev |-> BTN_EVENT_NONE]
    ELSE [btn |-> [b EXCEPT !.state.counter = 0,
                            !.state.click_cnt = 1,
                            !.state.state = "on_down_handler"],
          ev |-> BTN_EVENT_NONE]

on_idle_handler(b, io_ev) ==
    IF io_ev = BTN_IO_EVENT_UP
    THEN [btn |-> [b EXCEPT !.state.state = "on_up_handler"],
          ev |-> BTN_EVENT_NONE]
    ELSE [btn |-> [b EXCEPT !.state.counter = 0,
                            !.state.click_cnt = 1,
                            !.state.state = "on_down_handler"],
          ev |-> BTN_EVENT_NONE]

on_up_handler_keep_clicks(b, io_ev) ==
    IF io_ev = BTN_IO_EVENT_DOWN
    THEN [btn |-> [b EXCEPT !.state.counter = 0,
                            !.state.state = "on_down_handler"],
          ev |-> BTN_EVENT_NONE]
    ELSE [btn |-> b, ev |-> BTN_EVENT_NONE]

on_up_handler(b, io_ev) ==
    IF io_ev = BTN_IO_EVENT_DOWN
    THEN [btn |-> [b EXCEPT !.state.counter = 0,
                            !.state.click_cnt = 1,
                            !.state.state = "on_down_handler"],
          ev |-> BTN_EVENT_NONE]
    ELSE [btn |-> b, ev |-> BTN_EVENT_NONE]

on_up_suspense_handler_gt(b, io_ev) ==
    IF io_ev = BTN_IO_EVENT_UP
    THEN IF b.state.counter + 1 > b.cfg.up_max_cnt
         THEN [btn |-> [b EXCEPT !.state.counter = 0,
                                 !.state.state = "on_up_handler"],
               ev |-> dispatch_click_type(b.state.click_cnt)]
         ELSE [btn |-> [b EXCEPT !.state.counter = b.state.counter + 1],
               ev |-> BTN_EVENT_NONE]
    ELSE [btn |-> [b EXCEPT !.state.counter = 0,
                            !.state.click_cnt = b.state.click_cnt + 1,
                            !.state.state = "on_down_short_handler"],
          ev |-> BTN_EVENT_NONE]

on_up_suspense_handler_cap_three(b, io_ev) ==
    IF io_ev = BTN_IO_EVENT_UP
    THEN IF b.state.counter + 1 >= b.cfg.up_max_cnt
         THEN [btn |-> [b EXCEPT !.state.counter = 0,
                                 !.state.state = "on_up_handler"],
               ev |-> dispatch_click_type(b.state.click_cnt)]
         ELSE [btn |-> [b EXCEPT !.state.counter = b.state.counter + 1],
               ev |-> BTN_EVENT_NONE]
    ELSE [btn |-> [b EXCEPT !.state.counter = 0,
                            !.state.click_cnt = IF b.state.click_cnt < 3
                                                THEN b.state.click_cnt + 1
                                                ELSE b.state.click_cnt,
                            !.state.state = "on_down_short_handler"],
          ev |-> BTN_EVENT_NONE]

on_up_suspense_handler_no_count(b, io_ev) ==
    IF io_ev = BTN_IO_EVENT_UP
    THEN IF b.state.counter + 1 >= b.cfg.up_max_cnt
         THEN [btn |-> [b EXCEPT !.state.counter = 0,
                                 !.state.state = "on_up_handler"],
               ev |-> dispatch_click_type(b.state.click_cnt)]
         ELSE [btn |-> [b EXCEPT !.state.counter = b.state.counter + 1],
               ev |-> BTN_EVENT_NONE]
    ELSE [btn |-> [b EXCEPT !.state.counter = 0,
                            !.state.state = "on_down_short_handler"],
          ev |-> BTN_EVENT_NONE]

on_up_suspense_handler(b, io_ev) ==
    IF io_ev = BTN_IO_EVENT_UP
    THEN IF b.state.counter + 1 >= b.cfg.up_max_cnt
         THEN [btn |-> [b EXCEPT !.state.counter = 0,
                                 !.state.state = "on_up_handler"],
               ev |-> dispatch_click_type(b.state.click_cnt)]
         ELSE [btn |-> [b EXCEPT !.state.counter = b.state.counter + 1],
               ev |-> BTN_EVENT_NONE]
    ELSE [btn |-> [b EXCEPT !.state.counter = 0,
                            !.state.click_cnt = b.state.click_cnt + 1,
                            !.state.state = "on_down_short_handler"],
          ev |-> BTN_EVENT_NONE]

on_down_handler_gt(b, io_ev) ==
    IF io_ev = BTN_IO_EVENT_UP
    THEN [btn |-> [b EXCEPT !.state.counter = 0,
                            !.state.state = "on_up_suspense_handler"],
          ev |-> BTN_EVENT_POPUP]
    ELSE IF b.state.counter + 1 > b.cfg.long_min_cnt
         THEN [btn |-> [b EXCEPT !.state.counter = 0,
                                 !.state.state = "on_down_long_handler"],
               ev |-> BTN_EVENT_LONG_CLICK]
         ELSE [btn |-> [b EXCEPT !.state.counter = b.state.counter + 1],
               ev |-> BTN_EVENT_NONE]

on_down_handler_to_up(b, io_ev) ==
    IF io_ev = BTN_IO_EVENT_UP
    THEN [btn |-> [b EXCEPT !.state.counter = 0,
                            !.state.state = "on_up_handler"],
          ev |-> BTN_EVENT_POPUP]
    ELSE IF b.state.counter + 1 >= b.cfg.long_min_cnt
         THEN [btn |-> [b EXCEPT !.state.counter = 0,
                                 !.state.state = "on_down_long_handler"],
               ev |-> BTN_EVENT_LONG_CLICK]
         ELSE [btn |-> [b EXCEPT !.state.counter = b.state.counter + 1],
               ev |-> BTN_EVENT_NONE]

on_down_handler(b, io_ev) ==
    IF io_ev = BTN_IO_EVENT_UP
    THEN [btn |-> [b EXCEPT !.state.counter = 0,
                            !.state.state = "on_up_suspense_handler"],
          ev |-> BTN_EVENT_POPUP]
    ELSE IF b.state.counter + 1 >= b.cfg.long_min_cnt
         THEN [btn |-> [b EXCEPT !.state.counter = 0,
                                 !.state.state = "on_down_long_handler"],
               ev |-> BTN_EVENT_LONG_CLICK]
         ELSE [btn |-> [b EXCEPT !.state.counter = b.state.counter + 1],
               ev |-> BTN_EVENT_NONE]

on_down_short_handler_long_threshold(b, io_ev) ==
    IF io_ev = BTN_IO_EVENT_UP
    THEN [btn |-> [b EXCEPT !.state.counter = 0,
                            !.state.state = "on_up_suspense_handler"],
          ev |-> BTN_EVENT_POPUP]
    ELSE IF b.state.counter + 1 >= b.cfg.long_min_cnt
         THEN [btn |-> [b EXCEPT !.state.counter = 0,
                                 !.state.state = "on_down_long_handler"],
               ev |-> dispatch_click_type(b.state.click_cnt)]
         ELSE [btn |-> [b EXCEPT !.state.counter = b.state.counter + 1],
               ev |-> BTN_EVENT_NONE]

on_down_short_handler_keep_counter(b, io_ev) ==
    IF io_ev = BTN_IO_EVENT_UP
    THEN [btn |-> [b EXCEPT !.state.state = "on_up_suspense_handler"],
          ev |-> BTN_EVENT_POPUP]
    ELSE IF b.state.counter + 1 >= b.cfg.up_max_cnt
         THEN [btn |-> [b EXCEPT !.state.counter = 0,
                                 !.state.state = "on_down_long_handler"],
               ev |-> dispatch_click_type(b.state.click_cnt)]
         ELSE [btn |-> [b EXCEPT !.state.counter = b.state.counter + 1],
               ev |-> BTN_EVENT_NONE]

on_down_short_handler_long_click(b, io_ev) ==
    IF io_ev = BTN_IO_EVENT_UP
    THEN [btn |-> [b EXCEPT !.state.counter = 0,
                            !.state.state = "on_up_suspense_handler"],
          ev |-> BTN_EVENT_POPUP]
    ELSE IF b.state.counter + 1 >= b.cfg.up_max_cnt
         THEN [btn |-> [b EXCEPT !.state.counter = 0,
                                 !.state.state = "on_down_long_handler"],
               ev |-> BTN_EVENT_LONG_CLICK]
         ELSE [btn |-> [b EXCEPT !.state.counter = b.state.counter + 1],
               ev |-> BTN_EVENT_NONE]

on_down_short_handler(b, io_ev) ==
    IF io_ev = BTN_IO_EVENT_UP
    THEN [btn |-> [b EXCEPT !.state.counter = 0,
                            !.state.state = "on_up_suspense_handler"],
          ev |-> BTN_EVENT_POPUP]
    ELSE IF b.state.counter + 1 >= b.cfg.up_max_cnt
         THEN [btn |-> [b EXCEPT !.state.counter = 0,
                                 !.state.state = "on_down_long_handler"],
               ev |-> dispatch_click_type(b.state.click_cnt)]
         ELSE [btn |-> [b EXCEPT !.state.counter = b.state.counter + 1],
               ev |-> BTN_EVENT_NONE]

on_down_long_handler_silent(b, io_ev) ==
    [btn |-> IF io_ev = BTN_IO_EVENT_UP
             THEN [b EXCEPT !.state.state = "on_up_handler"] ELSE b,
     ev |-> BTN_EVENT_NONE]

on_down_long_handler(b, io_ev) ==
    IF io_ev = BTN_IO_EVENT_UP
    THEN [btn |-> [b EXCEPT !.state.state = "on_up_handler"],
          ev |-> BTN_EVENT_POPUP]
    ELSE [btn |-> b, ev |-> BTN_EVENT_NONE]

Handlers == {"on_idle_handler", "on_up_handler", "on_up_suspense_handler",
             "on_down_handler", "on_down_short_handler", "on_down_long_handler"}

\* The call through the function pointer p_btn->state.state.
on_state_handler(b, io_ev) ==
    CASE b.state.state = "on_idle_handler" -> on_idle_handler(b, io_ev)
      [] b.state.state = "on_up_handler" -> on_up_handler(b, io_ev)
      [] b.state.state = "on_up_suspense_handler" -> on_up_suspense_handler(b, io_ev)
      [] b.state.state = "on_down_handler" -> on_down_handler(b, io_ev)
      [] b.state.state = "on_down_short_handler" -> on_down_short_handler(b, io_ev)
      [] b.state.state = "on_down_long_handler" -> on_down_long_handler(b, io_ev)

\* ------------------------------------------------------------------------
\* Debounce filter

BitAnd(x, y) == IF x = 1 /\ y = 1 THEN 1 ELSE 0
BitOr(x, y) == IF x = 1 \/ y = 1 THEN 1 ELSE 0

button_debounce_two_sample(b, cur_lv) ==
    LET a2 == BitAnd(b.state.jit.previous, cur_lv)
    IN  [btn |-> [b EXCEPT !.state.jit = [previous |-> cur_lv, asserted |-> a2]],
         ret |-> a2]

button_debounce_latch(b, cur_lv) ==
    LET previous == b.state.jit.previous
        a1 == BitOr(b.state.jit.asserted, BitAnd(previous, cur_lv))
    IN  [btn |-> [b EXCEPT !.state.jit = [previous |-> cur_lv, asserted |-> a1]],
         ret |-> a1]

\* cur_lv is the value f_io_read returned.
button_debounce(b, cur_lv) ==
    LET previous == b.state.jit.previous
        a1 == BitOr(b.state.jit.asserted, BitAnd(previous, cur_lv))
        a2 == BitAnd(a1, BitOr(previous, cur_lv))
    IN  [btn |-> [b EXCEPT !.state.jit = [previous |-> cur_lv, asserted |-> a2]],
         ret |-> a2]

\* ------------------------------------------------------------------------
\* button_scan as a function of the pointer, the object and the level the
\* line would read.  ran tells whether the guard let the call through.

scan_guard_no_read_check(p, b) ==
    p = "NULL" \/ b.state.state = "NULL"

scan_guard(p, b) ==
    p = "NULL" \/ b.cfg.f_io_read = "NULL" \/ b.state.state = "NULL"

button_scan_call_cb_always(p, b, line) ==
    IF scan_guard(p, b)
    THEN [btn |-> b, ret |-> BTN_EVENT_NONE, cbs |-> <<>>, reads |-> 0,
          ran |-> FALSE, io_ev |-> "-", cur_level |-> 0]
    ELSE LET deb == button_debounce(b, line)
             cur_level == deb.ret
             io_ev == IF cur_level = b.cfg.active_lv
                      THEN BTN_IO_EVENT_DOWN ELSE BTN_IO_EVENT_UP
             h == on_state_handler(deb.btn, io_ev)
         IN  [btn |-> h.btn,
              ret |-> h.ev,
              cbs |-> IF h.btn.f_ev_cb # "NULL"
                      THEN <<[ev_type |-> h.ev, clicks |-> h.btn.state.click_cnt]>>
                      ELSE <<>>,
              reads |-> 1,
              ran |-> TRUE, io_ev |-> io_ev, cur_level |-> cur_level]

button_scan_call(p, b, line) ==
    IF scan_guard(p, b)
    THEN [btn |-> b, ret |-> BTN_EVENT_NONE, cbs |-> <<>>, reads |-> 0,
          ran |-> FALSE, io_ev |-> "-", cur_level |-> 0]
    ELSE LET deb == button_debounce(b, line)
             cur_level == deb.ret
             io_ev == IF cur_level = b.cfg.active_lv
                      THEN BTN_IO_EVENT_DOWN ELSE BTN_IO_EVENT_UP
             h == on_state_handler(deb.btn, io_ev)
         IN  [btn |-> h.btn,
              ret |-> h.ev,
              cbs |-> IF h.ev # BTN_EVENT_NONE /\ h.btn.f_ev_cb # "NULL"
                      THEN <<[ev_type |-> h.ev, clicks |-> h.btn.state.click_cnt]>>
                      ELSE <<>>,
              reads |-> 1,
              ran |-> TRUE, io_ev |-> io_ev, cur_level |-> cur_level]

\* ------------------------------------------------------------------------
\* Construction

\* The local button_t of button_ctor before any assignment: every field
\* holds whatever its storage held.  f_io_read and state.state are assigned
\* on both paths and are written as NULL here.
UninitButtons ==
    [cfg : [f_io_read : {"NULL"}, active_lv : Levels,
            up_max_cnt : 0..MaxUpCnt, long_min_cnt : 0..MaxLongCnt],
     f_ev_cb : {"NULL", "f_ev_cb"},
     state : [state : {"NULL"}, counter : 0..MaxCounter, click_cnt : 0..MaxClicks,
              jit : [previous : Levels, asserted : Levels]]]

button_ctor_no_invert(p_cfg, cb, uninit) ==
    IF ~p_cfg.null
    THEN [cfg |-> p_cfg.cfg,
          f_ev_cb |-> cb,
          state |-> [state |-> "on_idle_handler",
                     counter |-> uninit.state.counter,
                     click_cnt |-> uninit.state.click_cnt,
                     jit |-> [previous |-> p_cfg.cfg.active_lv,
                              asserted |-> p_cfg.cfg.active_lv]]]
    ELSE [uninit EXCEPT !.cfg.f_io_read = "NULL", !.state.state = "NULL"]

\* p_cfg is [null |-> TRUE] for an absent configuration, otherwise
\* [null |-> FALSE, cfg |-> the button_cfg_t pointed to].
button_ctor(p_cfg, cb, uninit) ==
    IF ~p_cfg.null
    THEN LET inactive == (p_cfg.cfg.active_lv + BUTTON_LEVEL_HIGH) % 2
         IN  [cfg |-> p_cfg.cfg,
              f_ev_cb |-> cb,
              state |-> [state |-> "on_idle_handler",
                         counter |-> uninit.state.counter,
                         click_cnt |-> uninit.state.click_cnt,
                         jit |-> [previous |-> inactive, asserted |-> inactive]]]
    ELSE [uninit EXCEPT !.cfg.f_io_read = "NULL", !.state.state = "NULL"]

Configs ==
    [f_io_read : {"NULL", "f_io_read"}, active_lv : Levels,
     up_max_cnt : 0..MaxUpCnt, long_min_cnt : 0..MaxLongCnt]

CfgPointers == {[null |-> TRUE]} \cup {[null |-> FALSE, cfg |-> c] : c \in Configs}

\* The unassigned objects that differ in counter and click_cnt alone, the
\* two fields the path of button_ctor with a configuration does not assign.
UninitCounters ==
    {u \in UninitButtons :
        /\ u.cfg = [f_io_read |-> "NULL", active_lv |-> 0,
                    up_max_cnt |-> 0, long_min_cnt |-> 0]
        /\ u.f_ev_cb = "NULL"
        /\ u.state.jit = [previous |-> 0, asserted |-> 0]}

\* ------------------------------------------------------------------------
\* The state machine of the model

Init ==
    /\ p_btn \in {"NULL", "btn"}
    /\ \E p_cfg \in CfgPointers, cb \in {"NULL", "f_ev_cb"} :
          \E u \in IF p_cfg.null THEN UninitButtons ELSE UninitCounters :
              btn = button_ctor(p_cfg, cb, u)
    /\ ret = BTN_EVENT_NONE
    /\ cbs = <<>>
    /\ reads = 0
    /\ hist = <<>>
    /\ raws = <<>>
    /\ limit = MaxTicks

\* Any button_t an enabled button_scan call can be handed: every handler,
\* counter, click count and debounce state, for the checks of single calls.
AnyButtons ==
    [cfg : {c \in Configs : c.f_io_read # "NULL"},
     f_ev_cb : {"NULL", "f_ev_cb"},
     state : [state : Handlers, counter : 0..MaxCounter, click_cnt : 0..MaxClicks,
              jit : [previous : Levels, asserted : Levels]]]

InitAny ==
    /\ p_btn = "btn"
    /\ btn \in AnyButtons
    /\ ret = BTN_EVENT_NONE
    /\ cbs = <<>>
    /\ reads = 0
    /\ hist = <<>>
    /\ raws = <<>>
    /\ limit = MaxAnyTicks

\* The configurations under which a window of several clicks can be made.
\* Stable inputs last two calls or more, and the call that enters a state is
\* not counted: the second call of a first press leaves Down with LongClick
\* unless long_min_cnt >= 2, the second call of a gap closes the window and
\* the second call of a later press leaves DownShort unless up_max_cnt >= 2.
\* InitMulti is button_ctor on these, with a callback registered.
MultiConfigs ==
    {c \in Configs : c.f_io_read # "NULL" /\ c.up_max_cnt >= 2 /\ c.long_min_cnt >= 2}

InitMulti ==
    /\ p_btn = "btn"
    /\ \E c \in MultiConfigs, u \in UninitCounters :
          btn = button_ctor([null |-> FALSE, cfg |-> c], "f_ev_cb", u)
    /\ ret = BTN_EVENT_NONE
    /\ cbs = <<>>
    /\ reads = 0
    /\ hist = <<>>
    /\ raws = <<>>
    /\ limit = MaxMultiTicks

Window(s, x) ==
    IF Len(s) < 4 THEN Append(s, x) ELSE Append(Tail(s), x)

\* A call that finds the released button at rest and leaves it there.
AtRest(h) ==
    h.ran /\ h.from \in {"on_idle_handler", "on_up_handler"} /\ h.io_ev = BTN_IO_EVENT_UP

\* One call of button_scan while the line reads level line.  The log starts
\* afresh at the second of two consecutive calls at rest and at the second of
\* two consecutive calls the guard refused.
button_scan(line) ==
    LET r == button_scan_call(p_btn, btn, line)
        call == [ran |-> r.ran, from |-> btn.state.state, io_ev |-> r.io_ev]
        fresh == \/ hist = <<>>
                 \/ AtRest(hist[Len(hist)]) /\ AtRest(call)
                 \/ ~hist[Len(hist)].ran /\ ~call.ran
        rec == [ran |-> r.ran,
                from |-> btn.state.state,
                io_ev |-> r.io_ev,
                lv |-> r.cur_level,
                run |-> IF ~fresh /\ hist[Len(hist)].io_ev = r.io_ev
                        THEN hist[Len(hist)].run + 1 ELSE 1,
                ev |-> r.ret,
                clicks |-> IF r.ret # BTN_EVENT_NONE
                           THEN r.btn.state.click_cnt ELSE 0]
        log == IF fresh THEN <<rec>> ELSE Append(hist, rec)
    IN  /\ Len(log) <= limit
        /\ btn' = r.btn
        /\ ret' = r.ret
        /\ cbs' = r.cbs
        /\ reads' = r.reads
        /\ hist' = log
        /\ raws' = IF r.reads = 1
                   THEN Window(raws, [raw |-> line, lv |-> r.cur_level, io_ev |-> r.io_ev])
                   ELSE raws
        /\ UNCHANGED <<p_btn, limit>>

Next == \E line \in Levels : button_scan(line)

Spec == Init /\ [][Next]_vars

\* Single calls of button_scan from every argument value.
SpecAny == InitAny /\ [][Next]_vars

\* Longer runs of calls on the objects of InitMulti, for windows of four clicks.
SpecMulti == InitMulti /\ [][Next]_vars

\* ------------------------------------------------------------------------
\* Reading the log of calls

N == Len(hist)

\* The last call went past the guard of button_scan.
Ran == N > 0 /\ hist[N].ran

Max(a, b) == IF a >= b THEN a ELSE b

\* The log is cut into runs of equal state-machine input; each record holds
\* the length so far of the run it belongs to.  Runs are counted from the end
\* of the log: run 0 is the run the last call belongs to, run 1 the one
\* before it.  RunEnd(j) is the index of the last call of run j, 0 if the log
\* has no such run.
RECURSIVE RunEnd(_)
RunEnd(j) ==
    IF j = 0 THEN N
    ELSE LET e == RunEnd(j - 1) IN IF e = 0 THEN 0 ELSE e - hist[e].run

HasRuns(n) == N > 0 /\ RunEnd(n - 1) > 0
RunLen(j) == hist[RunEnd(j)].run
RunStart(j) == RunEnd(j) - RunLen(j) + 1
RunIn(j) == hist[RunEnd(j)].io_ev

\* Run j opens a click window: its first call found the machine in Up.
FromUp(j) == hist[RunStart(j)].from = "on_up_handler"

\* The events returned by calls i..j, in order, and their kinds.
Emitted(i, j) == SelectSeq(SubSeq(hist, i, j), LAMBDA h : h.ev # BTN_EVENT_NONE)
Kinds(i, j) == LET e == Emitted(i, j) IN [x \in 1..Len(e) |-> e[x].ev]

ClickTypes == {BTN_EVENT_SINGLE_CLICK, BTN_EVENT_DOUBLE_CLICK, BTN_EVENT_MORE_CLICK}

\* What the callback of the last call was handed, when one is registered.
Delivered(kind, clicks) ==
    btn.f_ev_cb # "NULL" => cbs = <<[ev_type |-> kind, clicks |-> clicks]>>

\* ------------------------------------------------------------------------
\* C1: the transition table of the state machine, written by state name.

StateName(h) ==
    CASE h = "on_idle_handler" -> "Idle"
      [] h = "on_up_handler" -> "Up"
      [] h = "on_down_handler" -> "Down"
      [] h = "on_down_short_handler" -> "DownShort"
      [] h = "on_up_suspense_handler" -> "UpSuspense"
      [] h = "on_down_long_handler" -> "DownLong"

classify(n) ==
    CASE n = 0 -> BTN_EVENT_NONE
      [] n = 1 -> BTN_EVENT_SINGLE_CLICK
      [] n = 2 -> BTN_EVENT_DOUBLE_CLICK
      [] n >= 3 -> BTN_EVENT_MORE_CLICK

Row(st, c, k, e) == [state |-> st, counter |-> c, click_cnt |-> k, ev |-> e]

\* Table(st, c, k, in, up, long): the row of state st with counter c and
\* click count k under input in ("Pressed" or "Released").
Table(st, c, k, in, up, long) ==
    CASE st = "Idle" /\ in = "Pressed" -> Row("Down", 0, 1, BTN_EVENT_NONE)
      [] st = "Idle" /\ in = "Released" -> Row("Up", c, k, BTN_EVENT_NONE)
      [] st = "Up" /\ in = "Pressed" -> Row("Down", 0, 1, BTN_EVENT_NONE)
      [] st = "Up" /\ in = "Released" -> Row("Up", c, k, BTN_EVENT_NONE)
      [] st = "Down" /\ in = "Pressed" ->
            IF c + 1 >= long THEN Row("DownLong", 0, k, BTN_EVENT_LONG_CLICK)
            ELSE Row("Down", c + 1, k, BTN_EVENT_NONE)
      [] st = "Down" /\ in = "Released" -> Row("UpSuspense", 0, k, BTN_EVENT_POPUP)
      [] st = "DownShort" /\ in = "Pressed" ->
            IF c + 1 >= up THEN Row("DownLong", 0, k, classify(k))
            ELSE Row("DownShort", c + 1, k, BTN_EVENT_NONE)
      [] st = "DownShort" /\ in = "Released" -> Row("UpSuspense", 0, k, BTN_EVENT_POPUP)
      [] st = "UpSuspense" /\ in = "Pressed" -> Row("DownShort", 0, k + 1, BTN_EVENT_NONE)
      [] st = "UpSuspense" /\ in = "Released" ->
            IF c + 1 >= up THEN Row("Up", 0, k, classify(k))
            ELSE Row("UpSuspense", c + 1, k, BTN_EVENT_NONE)
      [] st = "DownLong" /\ in = "Pressed" -> Row("DownLong", c, k, BTN_EVENT_NONE)
      [] st = "DownLong" /\ in = "Released" -> Row("Up", c, k, BTN_EVENT_POPUP)

InputName(io_ev) == IF io_ev = BTN_IO_EVENT_DOWN THEN "Pressed" ELSE "Released"

\* C1: every button_scan call on an enabled instance, from every state,
\* counter and click count and under either input, ends in the state, the
\* counter, the click count and the returned event of the table's row.
C1_TransitionTable ==
    [][ hist'[Len(hist')].ran =>
        Row(StateName(btn'.state.state), btn'.state.counter,
            btn'.state.click_cnt, ret')
          = Table(StateName(btn.state.state), btn.state.counter,
                  btn.state.click_cnt, InputName(hist'[Len(hist')].io_ev),
                  btn.cfg.up_max_cnt, btn.cfg.long_min_cnt) ]_vars

\* The row (UpSuspense, Released) closing a window of three clicks.
C1_Witness ==
    /\ Ran
    /\ hist[N].from = "on_up_suspense_handler"
    /\ hist[N].io_ev = BTN_IO_EVENT_UP
    /\ ret = BTN_EVENT_MORE_CLICK
    /\ btn.state.state = "on_up_handler"

\* ------------------------------------------------------------------------
\* C2: after a scan the debounce output is 1 exactly when the two most
\* recent raw samples were both 1 (the truth table written next to the
\* filter).  The filter keeps its output when the two samples differ.
C2_TwoSampleOutput ==
    (Ran /\ Len(raws) >= 2) =>
        (btn.state.jit.asserted = 1
           <=> (raws[Len(raws)].raw = 1 /\ raws[Len(raws) - 1].raw = 1))

\* ------------------------------------------------------------------------
\* C3: when the line read v twice in a row, then the other level once, then
\* v again, the debounced level was v on the second v scan, on the glitch
\* scan and on the scan after it, and the state machine input did not change.
C3_GlitchSuppressed ==
    (Len(raws) = 4 /\ raws[1].raw = raws[2].raw
       /\ raws[3].raw # raws[2].raw /\ raws[4].raw = raws[2].raw) =>
        /\ \A i \in 2..4 : raws[i].lv = raws[2].raw
        /\ \A i \in 2..4 : raws[i].io_ev = raws[2].io_ev
        /\ btn.state.jit.asserted = raws[2].raw

\* A one-scan drop of an active-high line while the button is held.
C3_Witness ==
    /\ Len(raws) = 4
    /\ [i \in 1..4 |-> raws[i].raw] = <<1, 1, 0, 1>>
    /\ btn.cfg.active_lv = 1
    /\ raws[3].io_ev = BTN_IO_EVENT_DOWN
    /\ raws[4].io_ev = BTN_IO_EVENT_DOWN
    /\ btn.state.jit.asserted = 1

\* ------------------------------------------------------------------------
\* C8: a Released scan that directly follows a Pressed scan returns Popup,
\* whichever pressed state the machine was in.
C8_PopupOnRelease ==
    (N >= 2 /\ hist[N].ran /\ hist[N - 1].ran
       /\ hist[N - 1].io_ev = BTN_IO_EVENT_DOWN
       /\ hist[N].io_ev = BTN_IO_EVENT_UP) =>
        /\ ret = BTN_EVENT_POPUP
        /\ hist[N].from \in {"on_down_handler", "on_down_short_handler",
                             "on_down_long_handler"}

\* A release out of the long-press state.
C8_Witness ==
    /\ N >= 2
    /\ hist[N].ran
    /\ hist[N - 1].io_ev = BTN_IO_EVENT_DOWN
    /\ hist[N].io_ev = BTN_IO_EVENT_UP
    /\ hist[N].from = "on_down_long_handler"
    /\ ret = BTN_EVENT_POPUP

\* ------------------------------------------------------------------------
\* C10: with the instance pointer, the read function or the state pointer
\* absent, every call returns None, reads no level, calls no callback and
\* leaves every field of the instance as it was.
Absent ==
    p_btn = "NULL" \/ btn.cfg.f_io_read = "NULL" \/ btn.state.state = "NULL"

C10_DisabledNoOp ==
    /\ [](Absent => (ret = BTN_EVENT_NONE /\ reads = 0 /\ cbs = <<>>
                     /\ \A i \in 1..N : ~hist[i].ran /\ hist[i].ev = BTN_EVENT_NONE))
    /\ [][Absent => (btn' = btn /\ Absent')]_vars

\* A call on an instance built from a configuration whose read function is
\* absent: the state pointer is set, the call is still refused.
C10_Witness ==
    /\ N >= 1
    /\ ~hist[N].ran
    /\ p_btn = "btn"
    /\ btn.cfg.f_io_read = "NULL"
    /\ btn.state.state = "on_idle_handler"
    /\ ret = BTN_EVENT_NONE

\* ------------------------------------------------------------------------
\* C4, single click.  The log ends with a press of k calls that began in Up
\* and a release of m calls.

SinglePattern ==
    /\ HasRuns(2)
    /\ RunIn(0) = BTN_IO_EVENT_UP
    /\ FromUp(1)
    /\ RunLen(1) < btn.cfg.long_min_cnt

SingleOutcome ==
    /\ Kinds(RunStart(1), N) = <<BTN_EVENT_POPUP, BTN_EVENT_SINGLE_CLICK>>
    /\ hist[RunStart(0)].ev = BTN_EVENT_POPUP
    /\ Emitted(RunStart(1), N)[2].clicks = 1

\* C4 as stated: a press of 1 <= k < long_min_cnt calls from Up followed by
\* at least up_max_cnt Released calls has produced exactly Popup, on the
\* release call, and then SingleClick with click count 1.
C4_SingleClick_AsStated ==
    (SinglePattern /\ RunLen(0) >= btn.cfg.up_max_cnt) => SingleOutcome

\* C4 amended: the same once the release has lasted the release call and
\* up_max_cnt further calls (at least one): max(up_max_cnt, 1) + 1 Released
\* calls.  SingleClick is returned on exactly that call.
C4_SingleClick ==
    (SinglePattern /\ RunLen(0) >= Max(btn.cfg.up_max_cnt, 1) + 1) =>
        /\ SingleOutcome
        /\ hist[RunStart(0) + Max(btn.cfg.up_max_cnt, 1)].ev
              = BTN_EVENT_SINGLE_CLICK
        /\ (RunLen(0) = Max(btn.cfg.up_max_cnt, 1) + 1) =>
              Delivered(BTN_EVENT_SINGLE_CLICK, 1)

C4_Witness ==
    /\ SinglePattern
    /\ RunLen(0) = Max(btn.cfg.up_max_cnt, 1) + 1
    /\ ret = BTN_EVENT_SINGLE_CLICK
    /\ cbs = <<[ev_type |-> BTN_EVENT_SINGLE_CLICK, clicks |-> 1]>>

\* ------------------------------------------------------------------------
\* C5, double click.  The log ends with press, release, press, release, the
\* first press having begun in Up and the gap being shorter than up_max_cnt.

DoublePattern ==
    /\ HasRuns(4)
    /\ RunIn(0) = BTN_IO_EVENT_UP
    /\ FromUp(3)
    /\ RunLen(2) < btn.cfg.up_max_cnt

DoubleOutcome ==
    /\ Kinds(RunStart(3), N)
          = <<BTN_EVENT_POPUP, BTN_EVENT_POPUP, BTN_EVENT_DOUBLE_CLICK>>
    /\ Emitted(RunStart(3), N)[3].clicks = 2

\* C5 as stated: two press/release cycles less than up_max_cnt Released
\* calls apart, then at least up_max_cnt Released calls, have produced two
\* Popup events and a final DoubleClick with click count 2.
C5_DoubleClick_AsStated ==
    (DoublePattern /\ RunLen(0) >= btn.cfg.up_max_cnt) => DoubleOutcome

\* C5 amended: the same when the first press lasts at most long_min_cnt
\* calls, the second at most up_max_cnt calls, and the final release lasts
\* at least up_max_cnt + 1 calls.
C5_DoubleClick ==
    (DoublePattern
       /\ RunLen(3) <= btn.cfg.long_min_cnt
       /\ RunLen(1) <= btn.cfg.up_max_cnt
       /\ RunLen(0) >= btn.cfg.up_max_cnt + 1) =>
        /\ DoubleOutcome
        /\ hist[RunStart(2)].ev = BTN_EVENT_POPUP
        /\ hist[RunStart(0)].ev = BTN_EVENT_POPUP
        /\ (RunLen(0) = btn.cfg.up_max_cnt + 1) =>
              Delivered(BTN_EVENT_DOUBLE_CLICK, 2)

C5_Witness ==
    /\ DoublePattern
    /\ RunLen(3) <= btn.cfg.long_min_cnt
    /\ RunLen(1) <= btn.cfg.up_max_cnt
    /\ RunLen(0) = btn.cfg.up_max_cnt + 1
    /\ ret = BTN_EVENT_DOUBLE_CLICK
    /\ cbs = <<[ev_type |-> BTN_EVENT_DOUBLE_CLICK, clicks |-> 2]>>

\* ------------------------------------------------------------------------
\* C6, multi click.  The log ends with n press/release cycles, the first
\* press having begun in Up, every gap between two presses shorter than
\* up_max_cnt, and the machine is back in Up: the window has closed.

\* The run of the first press of the last n cycles.
First(n) == 2 * n - 1

MultiPattern(n) ==
    /\ HasRuns(2 * n)
    /\ RunIn(0) = BTN_IO_EVENT_UP
    /\ FromUp(First(n))
    /\ \A c \in 1..(n - 1) : RunLen(2 * c) < btn.cfg.up_max_cnt
    /\ btn.state.state = "on_up_handler"

LastEmitted(i, j) == LET e == Emitted(i, j) IN e[Len(e)]

MultiOutcome(n) ==
    /\ Emitted(RunStart(First(n)), N) # <<>>
    /\ LastEmitted(RunStart(First(n)), N).ev = BTN_EVENT_MORE_CLICK
    /\ LastEmitted(RunStart(First(n)), N).clicks = n

\* C6 as stated: for n >= 3 such cycles the last event is MoreClick with
\* click count n.
C6_MultiClick_AsStated ==
    \A n \in 3..(N \div 2) : MultiPattern(n) => MultiOutcome(n)

\* C6 amended: the same when the first press lasts at most long_min_cnt
\* calls and every later press at most up_max_cnt calls; the events of the
\* window are then n Popup events and the closing MoreClick.
C6_MultiClick ==
    \A n \in 3..(N \div 2) :
        (MultiPattern(n)
           /\ RunLen(First(n)) <= btn.cfg.long_min_cnt
           /\ \A c \in 1..(n - 1) : RunLen(2 * c - 1) <= btn.cfg.up_max_cnt) =>
            /\ MultiOutcome(n)
            /\ Kinds(RunStart(First(n)), N)
                  = [x \in 1..(n + 1) |-> IF x <= n THEN BTN_EVENT_POPUP
                                          ELSE BTN_EVENT_MORE_CLICK]
            /\ (hist[N].from = "on_up_suspense_handler") =>
                  Delivered(BTN_EVENT_MORE_CLICK, n)

\* A window of four clicks closing: the callback receives MoreClick with a
\* click count of 4.
C6_Witness ==
    /\ MultiPattern(4)
    /\ RunLen(First(4)) <= btn.cfg.long_min_cnt
    /\ \A c \in 1..3 : RunLen(2 * c - 1) <= btn.cfg.up_max_cnt
    /\ hist[N].from = "on_up_suspense_handler"
    /\ ret = BTN_EVENT_MORE_CLICK
    /\ cbs = <<[ev_type |-> BTN_EVENT_MORE_CLICK, clicks |-> 4]>>

\* ------------------------------------------------------------------------
\* C7, long click.  The log ends with a press that began in Up and is still
\* held (Held), or with such a press and the release after it (HeldReleased).

Held == HasRuns(1) /\ hist[N].ran /\ RunIn(0) = BTN_IO_EVENT_DOWN /\ FromUp(0)

HeldReleased ==
    /\ HasRuns(2)
    /\ RunIn(0) = BTN_IO_EVENT_UP
    /\ FromUp(1)

\* C7 as stated: a press from Up held for long_min_cnt calls has produced
\* LongClick, exactly once; its release produces Popup and nothing else.
C7_LongClick_AsStated ==
    /\ (Held /\ RunLen(0) >= btn.cfg.long_min_cnt) =>
          Kinds(RunStart(0), N) = <<BTN_EVENT_LONG_CLICK>>
    /\ (HeldReleased /\ RunLen(1) >= btn.cfg.long_min_cnt) =>
          Kinds(RunStart(1), N) = <<BTN_EVENT_LONG_CLICK, BTN_EVENT_POPUP>>

\* C7 amended: a press from Up held for the call that enters Down and
\* long_min_cnt further calls (at least one), max(long_min_cnt, 1) + 1
\* Pressed calls, has produced LongClick exactly once, on that call, out of
\* Down and with click count 1; the release returns Popup on its first call
\* and no other event follows.
C7_LongClick ==
    /\ (Held /\ RunLen(0) >= Max(btn.cfg.long_min_cnt, 1) + 1) =>
          LET t == RunStart(0) + Max(btn.cfg.long_min_cnt, 1)
          IN  /\ Kinds(RunStart(0), N) = <<BTN_EVENT_LONG_CLICK>>
              /\ hist[t].ev = BTN_EVENT_LONG_CLICK
              /\ hist[t].from = "on_down_handler"
              /\ hist[t].clicks = 1
              /\ btn.state.state = "on_down_long_handler"
    /\ (HeldReleased /\ RunLen(1) >= Max(btn.cfg.long_min_cnt, 1) + 1) =>
          /\ Kinds(RunStart(1), N) = <<BTN_EVENT_LONG_CLICK, BTN_EVENT_POPUP>>
          /\ hist[RunStart(0)].ev = BTN_EVENT_POPUP
          /\ btn.state.state = "on_up_handler"

C7_Witness ==
    /\ HeldReleased
    /\ RunLen(1) >= Max(btn.cfg.long_min_cnt, 1) + 3
    /\ RunLen(0) >= 2
    /\ btn.cfg.long_min_cnt >= 2

\* ------------------------------------------------------------------------
\* C9: where a click-type event can be returned.

\* C9 as stated: a click-type event is returned only by a Released call that
\* ends at least up_max_cnt consecutive Released calls, never by a Pressed call.
C9_ClickOnlyOnTimeout_AsStated ==
    (Ran /\ ret \in ClickTypes) =>
        /\ hist[N].io_ev = BTN_IO_EVENT_UP
        /\ RunLen(0) >= btn.cfg.up_max_cnt

\* C9 amended: a click-type event is returned only by the call that ends
\* max(up_max_cnt, 1) + 1 consecutive Released calls, out of UpSuspense, or
\* by the call that ends max(up_max_cnt, 1) + 1 consecutive Pressed calls of a
\* second or later press of the window, out of DownShort.
C9_ClickOnlyOnTimeout ==
    (Ran /\ ret \in ClickTypes) =>
        /\ RunLen(0) = Max(btn.cfg.up_max_cnt, 1) + 1
        /\ \/ /\ hist[N].io_ev = BTN_IO_EVENT_UP
              /\ hist[N].from = "on_up_suspense_handler"
              /\ btn.state.state = "on_up_handler"
           \/ /\ hist[N].io_ev = BTN_IO_EVENT_DOWN
              /\ hist[N].from = "on_down_short_handler"
              /\ btn.state.state = "on_down_long_handler"
              /\ ret # BTN_EVENT_SINGLE_CLICK

\* A double click classified while the second press is still held.
C9_Witness ==
    /\ Ran
    /\ ret = BTN_EVENT_DOUBLE_CLICK
    /\ hist[N].io_ev = BTN_IO_EVENT_DOWN
    /\ hist[N].from = "on_down_short_handler"
    /\ btn.cfg.up_max_cnt >= 2

\* ------------------------------------------------------------------------
\* C11: a button_scan call invokes the callback at most once; with a returned
\* event other than None and a callback registered it invokes it exactly
\* once, handing it the returned kind and the click count as stored after the
\* transition; with None returned it does not invoke it.
C11_CallbackOncePerEvent ==
    Ran =>
        /\ Len(cbs) <= 1
        /\ (ret # BTN_EVENT_NONE /\ btn.f_ev_cb # "NULL") =>
              /\ Len(cbs) = 1
              /\ cbs[1].ev_type = ret
              /\ cbs[1].clicks = btn.state.click_cnt
        /\ (ret = BTN_EVENT_NONE) => Len(cbs) = 0

\* A second press held long enough: the callback receives the double click.
C11_Witness ==
    /\ Ran
    /\ ret = BTN_EVENT_DOUBLE_CLICK
    /\ btn.f_ev_cb # "NULL"
    /\ cbs = <<[ev_type |-> BTN_EVENT_DOUBLE_CLICK, clicks |-> 2]>>

\* ------------------------------------------------------------------------
\* C12: what a call that returns None leaves alone.

\* The last call of the log after the step, and the handler it ran.
Call == hist'[Len(hist')]

\* C12 as stated: on every call that returns None the click count is
\* unchanged and the callback is not invoked.
C12_NoneLeavesClicks_AsStated ==
    [][ (Call.ran /\ ret' = BTN_EVENT_NONE) =>
          /\ btn'.state.click_cnt = btn.state.click_cnt
          /\ cbs' = <<>> ]_vars

\* C12 amended: on every call that returns None the callback is not invoked,
\* and the click count is unchanged except on the two Pressed calls that
\* count a press: out of Idle or Up it becomes 1, out of UpSuspense it grows
\* by one.
C12_NoneLeavesClicks ==
    [][ (Call.ran /\ ret' = BTN_EVENT_NONE) =>
          /\ cbs' = <<>>
          /\ btn'.state.click_cnt =
                IF Call.io_ev = BTN_IO_EVENT_DOWN
                   /\ Call.from \in {"on_idle_handler", "on_up_handler"}
                THEN 1
                ELSE IF Call.io_ev = BTN_IO_EVENT_DOWN
                        /\ Call.from = "on_up_suspense_handler"
                THEN btn.state.click_cnt + 1
                ELSE btn.state.click_cnt ]_vars

\* The second press of a window: None returned, the click count now 2.
C12_Witness ==
    /\ Ran
    /\ ret = BTN_EVENT_NONE
    /\ cbs = <<>>
    /\ hist[N].from = "on_up_suspense_handler"
    /\ hist[N].io_ev = BTN_IO_EVENT_DOWN
    /\ btn.state.click_cnt = 2
    /\ btn.f_ev_cb # "NULL"

\* ------------------------------------------------------------------------
\* C13: the debounce update of one call.

Bit(x) == IF x THEN 1 ELSE 0

\* C13: every enabled button_scan call, whatever the state of the machine,
\* reads the line once and, with a the stable level, p the previous raw
\* sample and r the sample read, stores a' = (a OR (p AND r)) AND (p OR r)
\* and p' = r; the stable level becomes r when r equals p and keeps its value
\* when they differ, and it is the level the state machine is fed.
C13_DebounceStep ==
    [][ Call.ran =>
          LET a == btn.state.jit.asserted
              p == btn.state.jit.previous
              r == raws'[Len(raws')].raw
          IN  /\ reads' = 1
              /\ btn'.state.jit.previous = r
              /\ btn'.state.jit.asserted =
                    Bit((a = 1 \/ (p = 1 /\ r = 1)) /\ (p = 1 \/ r = 1))
              /\ btn'.state.jit.asserted = IF r = p THEN r ELSE a
              /\ Call.lv = btn'.state.jit.asserted
              /\ Call.io_ev = IF Call.lv = btn.cfg.active_lv
                              THEN BTN_IO_EVENT_DOWN ELSE BTN_IO_EVENT_UP ]_vars

\* A call in DownLong whose sample differs from the previous one: the stable
\* level 1 is kept although the line read 0.
C13_Witness ==
    /\ Ran
    /\ hist[N].from = "on_down_long_handler"
    /\ raws[Len(raws)].raw = 0
    /\ btn.state.jit.previous = 0
    /\ btn.state.jit.asserted = 1
    /\ reads = 1

\* ------------------------------------------------------------------------
\* C14: the click count in the states of a click window.

\* The last call classified the click count: the two places that call
\* dispatch_click_type, a timeout in UpSuspense and one in DownShort.
Classified ==
    /\ Ran
    /\ \/ hist[N].from = "on_up_suspense_handler" /\ btn.state.state = "on_up_handler"
       \/ hist[N].from = "on_down_short_handler" /\ btn.state.state = "on_down_long_handler"

\* C14: in every reachable state the click count is 1 in Down, at least 2 in
\* DownShort and at least 1 in UpSuspense; a classification is never applied
\* to a click count of 0 and never yields None.
C14_ClickCountByState ==
    /\ btn.state.state = "on_down_handler" => btn.state.click_cnt = 1
    /\ btn.state.state = "on_down_short_handler" => btn.state.click_cnt >= 2
    /\ btn.state.state = "on_up_suspense_handler" => btn.state.click_cnt >= 1
    /\ Classified =>
          /\ btn.state.click_cnt >= 1
          /\ ret = classify(btn.state.click_cnt)
          /\ ret # BTN_EVENT_NONE

\* The third press of a window, in DownShort with a click count of 3.
C14_Witness ==
    /\ Ran
    /\ btn.state.state = "on_down_short_handler"
    /\ btn.state.click_cnt = 3
    /\ hist[N].from = "on_up_suspense_handler"

\* ------------------------------------------------------------------------
\* C15: the counter in the counting states.

Counting == {"on_down_handler", "on_down_short_handler", "on_up_suspense_handler"}

\* The threshold the counter of a counting state is compared with.
Threshold(st) ==
    IF st = "on_down_handler" THEN btn.cfg.long_min_cnt ELSE btn.cfg.up_max_cnt

\* C15: after every call that enters Down, DownShort or UpSuspense from a
\* different state the counter is 0, and whenever the machine is in one of
\* these states with a threshold of at least 1 the counter is below the
\* threshold of the state.
C15_CounterReset ==
    btn.state.state \in Counting =>
        /\ (Ran /\ hist[N].from # btn.state.state) => btn.state.counter = 0
        /\ Threshold(btn.state.state) >= 1 =>
              btn.state.counter < Threshold(btn.state.state)

\* A release that enters UpSuspense out of a DownShort whose counter had
\* counted at least one tick.
C15_Witness ==
    /\ Ran /\ N >= 2
    /\ hist[N].from = "on_down_short_handler"
    /\ hist[N - 1].from = "on_down_short_handler"
    /\ btn.state.state = "on_up_suspense_handler"
    /\ btn.state.counter = 0

\* ------------------------------------------------------------------------
\* C16: a second or later press of a window that is held.

\* Run j is a press that began in UpSuspense, so that all its calls but the
\* first found the machine in DownShort or DownLong.
LaterPress(j) ==
    /\ HasRuns(j + 1)
    /\ hist[RunEnd(j)].ran
    /\ RunIn(j) = BTN_IO_EVENT_DOWN
    /\ hist[RunStart(j)].from = "on_up_suspense_handler"

\* C16: a press that begins in DownShort returns nothing while its counter
\* is short of up_max_cnt; the call on which the counter reaches it returns
\* the classification of the click count, DoubleClick or MoreClick, with the
\* input still Pressed, and moves to DownLong.  LongClick is returned only
\* out of Down, with a click count of 1.  The release after such a press
\* returns Popup and nothing else follows the classification.
C16_HeldLaterPress ==
    /\ (LaterPress(0) /\ RunLen(0) >= 2) =>
          IF RunLen(0) <= Max(btn.cfg.up_max_cnt, 1)
          THEN ret = BTN_EVENT_NONE /\ btn.state.state = "on_down_short_handler"
          ELSE /\ btn.state.state = "on_down_long_handler"
               /\ btn.state.click_cnt >= 2
               /\ Kinds(RunStart(0), N) = <<classify(btn.state.click_cnt)>>
               /\ Kinds(RunStart(0), N)[1] \in {BTN_EVENT_DOUBLE_CLICK, BTN_EVENT_MORE_CLICK}
               /\ RunLen(0) = Max(btn.cfg.up_max_cnt, 1) + 1 =>
                     ret = classify(btn.state.click_cnt)
    /\ (Ran /\ ret = BTN_EVENT_LONG_CLICK) =>
          /\ hist[N].from = "on_down_handler"
          /\ btn.state.click_cnt = 1
          /\ Delivered(BTN_EVENT_LONG_CLICK, 1)
    /\ (Ran /\ RunIn(0) = BTN_IO_EVENT_UP /\ LaterPress(1)
          /\ RunLen(1) > Max(btn.cfg.up_max_cnt, 1)) =>
          /\ btn.state.state = "on_up_handler"
          /\ Kinds(RunStart(1), N) = <<classify(btn.state.click_cnt), BTN_EVENT_POPUP>>

\* A third press held past the classification and then released.
C16_Witness ==
    /\ Ran
    /\ RunIn(0) = BTN_IO_EVENT_UP
    /\ LaterPress(1)
    /\ RunLen(1) >= Max(btn.cfg.up_max_cnt, 1) + 2
    /\ btn.state.click_cnt = 3
    /\ ret = BTN_EVENT_POPUP

\* ------------------------------------------------------------------------
\* C17: the events of one click window.

\* Call i opens a click window: a Pressed call out of Idle or Up.
Opens(i) ==
    /\ hist[i].ran
    /\ hist[i].io_ev = BTN_IO_EVENT_DOWN
    /\ hist[i].from \in {"on_idle_handler", "on_up_handler"}

\* The index of the last call up to i that opens a window, 0 if none does.
RECURSIVE LastOpen(_)
LastOpen(i) == IF i = 0 THEN 0 ELSE IF Opens(i) THEN i ELSE LastOpen(i - 1)

Closing == ClickTypes \cup {BTN_EVENT_LONG_CLICK}

\* The number of window-closing events returned by calls i..N.
Closed(i) == Len(SelectSeq(SubSeq(hist, i, N), LAMBDA h : h.ev \in Closing))

\* C17: from the call that enters Down out of Idle or Up to the next return
\* to Up exactly one of LongClick, SingleClick, DoubleClick, MoreClick is
\* returned: none while the window is in Down, DownShort or UpSuspense, one
\* once it is in DownLong or back in Up; every other event of the window is
\* a Popup, and calls outside a window return nothing.
C17_OneClosingEvent ==
    /\ LET s == LastOpen(N)
       IN  s > 0 =>
             /\ Closed(s) = IF btn.state.state \in {"on_down_long_handler", "on_up_handler"}
                            THEN 1 ELSE 0
             /\ \A i \in s..N :
                   hist[i].ev \in Closing \cup {BTN_EVENT_POPUP, BTN_EVENT_NONE}
    /\ (Ran /\ AtRest(hist[N])) => ret = BTN_EVENT_NONE

\* A window of two presses, closed and back in Up: two Popups and one
\* closing event.
C17_Witness ==
    /\ Ran
    /\ LastOpen(N) > 0
    /\ btn.state.state = "on_up_handler"
    /\ Len(Emitted(LastOpen(N), N)) = 3
    /\ Closed(LastOpen(N)) = 1

\* ------------------------------------------------------------------------
\* C18: the state after a call and the input of the call.

DownStates == {"on_down_handler", "on_down_short_handler", "on_down_long_handler"}
UpStates == {"on_up_handler", "on_up_suspense_handler"}

\* C18: after every enabled button_scan call the state is Down, DownShort or
\* DownLong exactly when the input of the call was Pressed and Up or
\* UpSuspense exactly when it was Released, so Idle is the state only before
\* the first enabled call; Popup is returned only by a Released call that
\* directly follows a Pressed call.
C18_StateFollowsInput ==
    Ran =>
        /\ btn.state.state \in DownStates <=> hist[N].io_ev = BTN_IO_EVENT_DOWN
        /\ btn.state.state \in UpStates <=> hist[N].io_ev = BTN_IO_EVENT_UP
        /\ btn.state.state # "on_idle_handler"
        /\ hist[N].from = "on_idle_handler" => N = 1
        /\ ret = BTN_EVENT_POPUP =>
              /\ hist[N].io_ev = BTN_IO_EVENT_UP
              /\ N >= 2
              /\ hist[N - 1].ran
              /\ hist[N - 1].io_ev = BTN_IO_EVENT_DOWN

\* The release of a press that had reached DownLong: Popup, back in Up.
C18_Witness ==
    /\ Ran /\ N >= 2
    /\ ret = BTN_EVENT_POPUP
    /\ hist[N].from = "on_down_long_handler"
    /\ hist[N - 1].io_ev = BTN_IO_EVENT_DOWN
    /\ btn.state.state = "on_up_handler"

\* ------------------------------------------------------------------------
\* C19: construction and the first call.

Inactive == 1 - btn.cfg.active_lv

\* C19: an object constructed with a configuration starts with both debounce
\* bits at the inactive level, for either polarity; its first enabled call,
\* whatever the line reads, feeds Released, goes from Idle to Up and returns
\* None, so that Idle never sees Pressed; a Pressed input that begins a press
\* comes with the second call at the earliest, after two consecutive raw
\* samples at the active level.
C19_FirstScan ==
    /\ btn.state.state = "on_idle_handler" =>
          /\ btn.state.jit.previous = Inactive
          /\ btn.state.jit.asserted = Inactive
    /\ (N >= 1 /\ hist[1].ran /\ hist[1].from = "on_idle_handler") =>
          /\ hist[1].lv = Inactive
          /\ hist[1].io_ev = BTN_IO_EVENT_UP
          /\ hist[1].ev = BTN_EVENT_NONE
          /\ N = 1 => btn.state.state = "on_up_handler" /\ cbs = <<>>
    /\ (Ran /\ hist[N].io_ev = BTN_IO_EVENT_DOWN /\ hist[N].from \notin DownStates) =>
          /\ Len(raws) >= 2
          /\ raws[Len(raws)].raw = btn.cfg.active_lv
          /\ raws[Len(raws) - 1].raw = btn.cfg.active_lv
          /\ hist[N].from \in UpStates

\* The first call of an active-low button whose line already reads active.
C19_Witness ==
    /\ Ran /\ N = 1
    /\ hist[1].from = "on_idle_handler"
    /\ btn.cfg.active_lv = 0
    /\ raws = <<[raw |-> 0, lv |-> 1, io_ev |-> BTN_IO_EVENT_UP]>>
    /\ btn.state.state = "on_up_handler"

\* ------------------------------------------------------------------------
\* C20: quiescence under an input that has stopped changing.

\* The last call found the machine in a quiescent state and kept its input:
\* Up under Released or DownLong under Pressed.
Quiescent ==
    /\ Ran
    /\ \/ hist[N].from = "on_up_handler" /\ hist[N].io_ev = BTN_IO_EVENT_UP
       \/ hist[N].from = "on_down_long_handler" /\ hist[N].io_ev = BTN_IO_EVENT_DOWN

\* The number of consecutive Pressed calls after which a press is in
\* DownLong: the call that begins the press and the threshold of Down for the
\* first press of a window, that of DownShort for a later one.
HoldTicks ==
    IF hist[RunStart(0)].from = "on_up_suspense_handler"
    THEN Max(btn.cfg.up_max_cnt, 1) + 1
    ELSE Max(btn.cfg.long_min_cnt, 1) + 1

\* C20 as stated, for an input that stays Released: after up_max_cnt + 1
\* consecutive Released calls the machine is in Up.
C20_Quiescence_AsStated ==
    (Ran /\ RunIn(0) = BTN_IO_EVENT_UP /\ RunLen(0) >= btn.cfg.up_max_cnt + 1) =>
        btn.state.state = "on_up_handler"

\* C20 amended: after max(up_max_cnt, 1) + 1 consecutive Released calls the
\* machine is in Up with the click window closed; after max(long_min_cnt, 1)
\* + 1 consecutive Pressed calls of a first press, or max(up_max_cnt, 1) + 1
\* of a later press, it is in DownLong; a call in Up under Released or in
\* DownLong under Pressed keeps the state and returns nothing.
C20_Quiescence ==
    /\ (Ran /\ RunIn(0) = BTN_IO_EVENT_UP
          /\ RunLen(0) >= Max(btn.cfg.up_max_cnt, 1) + 1) =>
          /\ btn.state.state = "on_up_handler"
          /\ LastOpen(N) > 0 => Closed(LastOpen(N)) = 1
    /\ (Ran /\ RunIn(0) = BTN_IO_EVENT_DOWN /\ RunLen(0) >= HoldTicks) =>
          btn.state.state = "on_down_long_handler"
    /\ Quiescent =>
          /\ btn.state.state = hist[N].from
          /\ ret = BTN_EVENT_NONE
          /\ cbs = <<>>

\* With up_max_cnt = 0 the window of a released press closes on the second
\* Released call.
C20_Witness ==
    /\ Ran
    /\ btn.cfg.up_max_cnt = 0
    /\ RunIn(0) = BTN_IO_EVENT_UP
    /\ RunLen(0) = 2
    /\ hist[N].from = "on_up_suspense_handler"
    /\ btn.state.state = "on_up_handler"

====
